---- MODULE Spec2Model ----
(***************************************************************************)
(* A model of bikeshare.py: the abbreviation generators, the prompt        *)
(* formatter, the selection loop of show_prompt, the session loop of main  *)
(* and the progress animation thread of show_on_wait and stop_waiting.     *)
(*                                                                         *)
(* A Python str is a sequence of one-character strings, so that slicing,   *)
(* find, split, lower and format are computed character by character.     *)
(* A Python dict is a sequence of <<key, value>> pairs in insertion order  *)
(* (the order dict.items() iterates in): assigning to a key that is        *)
(* present replaces the value in place, assigning to a new key appends.    *)
(***************************************************************************)
EXTENDS Integers, Sequences, FiniteSets, TLC

VARIABLES
    call,   \* the pending call of a generator or of build_options: [fn, names, abbreviation_type]
    ret     \* what that call produced: [fn, err, prompts, options, abbreviations]

\* The call of show_prompt in progress.
VARIABLES
    sp_pc,        \* "idle", "build" (before build_options), "input" (blocked in input()),
                  \* "returned", "raised"
    sp_names,     \* the argument names
    sp_type,      \* the argument abbreviation_type
    word_part,    \* the options text build_options returned
    prompt_map,   \* the abbreviation map build_options returned
    index,        \* the loop variable of the attempts
    raw,          \* the last line input() returned
    selected,     \* the name matched by the last line, or None
    inputs,       \* the lines this call has read so far, in order
    raised        \* the exception in flight: [type, msg]

\* main and the session it runs.
VARIABLES
    pc,           \* "idle"; "get_filters" (start of a pass of the loop of main); "city",
                  \* "date_filter", "month", "day" (inside that show_prompt); "load_data";
                  \* "stats"; "raw", "more" (blocked in the inputs of prompt_for_raw_stats);
                  \* "restart" (blocked in the restart input); "exit"
    listing,      \* os.listdir(path): [name, isfile] per entry
    selected_city, \* city of get_filters: the city selected
    date_filter,  \* the date filter selected
    month,        \* the month filter, ALL for none
    day,          \* the day filter, ALL for none
    loaded,       \* load_data has returned the data frame in this session
    nrows,        \* len(df.index)
    stat,         \* the statistics function in progress or last completed, 1..4, 0 before
    row,          \* row of prompt_for_raw_stats
    printed,      \* what the except clauses of main printed in this pass of its loop
    restart,      \* the answer to the restart prompt (cleared when the next pass
                  \* starts: it is not read again before it is assigned)
    shown         \* the selection prompts shown in this session, in order

\* The progress animation: the globals of line 278, the Thread objects, and the
\* position of the main thread in a function that shows the animation.
VARIABLES
    wait,         \* the global wait
    thread,       \* the global thread: None, or the Thread show_on_wait started
    kill,         \* the global kill
    threads,      \* per Thread object: [st, i], st "free" (no such object), "running"
                  \* (started, inside run) or "finished"; i the loop variable of run
    w_pc          \* "none"; "work" (after show_on_wait, before stop_waiting); "raised"
                  \* (an exception left that work); "join" (in thread.join() of
                  \* stop_waiting()); "except_join" (in thread.join() of the
                  \* stop_waiting(True) of an except clause of main)

fnVars == <<call, ret>>

waitVars == <<wait, thread, kill, threads, w_pc>>

mainVars == <<pc, listing, selected_city, date_filter, month, day, loaded, nrows, stat, row,
              printed, restart, shown>>

spVars == <<sp_pc, sp_names, sp_type, word_part, prompt_map, index, raw, selected,
            inputs, raised>>

vars == <<fnVars, spVars, mainVars, waitVars>>

-----------------------------------------------------------------------------
(* Bounds of the inputs. *)

\* longest name, in characters, of the enumerated name lists
MaxLen == 3
\* longest enumerated name list
MaxNames == 2

-----------------------------------------------------------------------------
(* Python values. *)

\* Python's None, as a value no str equals (a str holds one-character strings).
None == <<"None">>

\* No exception.
NoErr == ""

ACRONYMN == 0
PROPER_NAME == 1

Min(a, b) == IF a < b THEN a ELSE b

\* s[:n]
Slice(s, n) == SubSeq(s, 1, Min(n, Len(s)))

\* s.find(sub) != -1
Contains(s, sub) ==
    \E i \in 1..(Len(s) - Len(sub) + 1) : SubSeq(s, i, i + Len(sub) - 1) = sub

Uppers == <<"A","B","C","D","E","F","G","H","I","J","K","L","M",
            "N","O","P","Q","R","S","T","U","V","W","X","Y","Z">>
Lowers == <<"a","b","c","d","e","f","g","h","i","j","k","l","m",
            "n","o","p","q","r","s","t","u","v","w","x","y","z">>

LowerChar(c) ==
    IF \E i \in 1..Len(Uppers) : Uppers[i] = c
    THEN Lowers[CHOOSE i \in 1..Len(Uppers) : Uppers[i] = c]
    ELSE c

UpperChar(c) ==
    IF \E i \in 1..Len(Lowers) : Lowers[i] = c
    THEN Uppers[CHOOSE i \in 1..Len(Lowers) : Lowers[i] = c]
    ELSE c

\* s.lower()
Lower(s) == [i \in 1..Len(s) |-> LowerChar(s[i])]

\* s.split(' '): the tokens between single spaces; empty tokens are kept.
RECURSIVE Split(_)
Split(s) ==
    IF \A i \in 1..Len(s) : s[i] # " "
    THEN <<s>>
    ELSE LET i == CHOOSE k \in 1..Len(s) :
                    s[k] = " " /\ \A j \in 1..(k - 1) : s[j] # " "
         IN  <<SubSeq(s, 1, i - 1)>> \o Split(SubSeq(s, i + 1, Len(s)))

\* sep.join(parts)
RECURSIVE Join(_, _)
Join(sep, parts) ==
    IF Len(parts) = 0 THEN <<>>
    ELSE IF Len(parts) = 1 THEN parts[1]
    ELSE parts[1] \o sep \o Join(sep, Tail(parts))

\* key in d
DictHas(d, k) == \E i \in 1..Len(d) : d[i][1] = k

\* d[key], for a key that is present
DictGet(d, k) == d[CHOOSE i \in 1..Len(d) : d[i][1] = k][2]

\* d[key] = value
DictSet(d, k, v) ==
    IF DictHas(d, k)
    THEN [i \in 1..Len(d) |-> IF d[i][1] = k THEN <<k, v>> ELSE d[i]]
    ELSE Append(d, <<k, v>>)

\* '{} [{}]'.format(name, abbreviation)
FormatPrompt(name, abbreviation) ==
    name \o <<" ", "[">> \o abbreviation \o <<"]">>

-----------------------------------------------------------------------------
(* abbreviate_initial and generate_city_prompts *)

\* The initials of the tokens; part[0] of an empty token raises IndexError.
abbreviate_initial(city) ==
    LET parts == Split(city)
    IN  IF \E i \in 1..Len(parts) : parts[i] = <<>>
        THEN [err |-> "IndexError", value |-> <<>>]
        ELSE [err |-> NoErr, value |-> [i \in 1..Len(parts) |-> parts[i][1]]]

\* CityLoop with an initials key that is taken kept for the earlier city.
RECURSIVE CityLoopKeepFirst(_, _, _, _)
CityLoopKeepFirst(cities, i, prompts, abbreviations) ==
    IF i > Len(cities)
    THEN [err |-> NoErr, prompts |-> prompts, abbreviations |-> abbreviations]
    ELSE LET city == cities[i]
             abbreviation == abbreviate_initial(city)
         IN  IF abbreviation.err # NoErr
             THEN [err |-> abbreviation.err, prompts |-> <<>>, abbreviations |-> <<>>]
             ELSE CityLoopKeepFirst(cities, i + 1,
                      Append(prompts, FormatPrompt(city, abbreviation.value)),
                      IF DictHas(abbreviations, abbreviation.value)
                      THEN abbreviations
                      ELSE DictSet(abbreviations, abbreviation.value, city))

\* The loop over cities from position i on, on the prompts and the map so far.
RECURSIVE CityLoop(_, _, _, _)
CityLoop(cities, i, prompts, abbreviations) ==
    IF i > Len(cities)
    THEN [err |-> NoErr, prompts |-> prompts, abbreviations |-> abbreviations]
    ELSE LET city == cities[i]
             abbreviation == abbreviate_initial(city)
         IN  IF abbreviation.err # NoErr
             THEN [err |-> abbreviation.err, prompts |-> <<>>, abbreviations |-> <<>>]
             ELSE CityLoop(cities, i + 1,
                           Append(prompts, FormatPrompt(city, abbreviation.value)),
                           DictSet(abbreviations, abbreviation.value, city))

generate_city_prompts(cities) == CityLoop(cities, 1, <<>>, <<>>)

-----------------------------------------------------------------------------
(* generate_name_prompts *)

StrNot == <<"n","o","t">>
StrAll == <<"a","l","l">>
StrNone == <<"n","o","n","e">>

\* PrefixLoop that leaves the earlier name at the clashing prefix.
RECURSIVE PrefixLoopNoDisplace(_, _, _)
PrefixLoopNoDisplace(potential_abbreviations, name, length) ==
    IF length > Len(name)
    THEN potential_abbreviations
    ELSE LET first_part == Slice(name, length)
         IN  IF ~DictHas(potential_abbreviations, first_part)
             THEN DictSet(potential_abbreviations, first_part, name)
             ELSE PrefixLoopNoDisplace(potential_abbreviations, name, length + 1)

\* The inner loop, for length in range(length, len(name) + 1).
RECURSIVE PrefixLoop(_, _, _)
PrefixLoop(potential_abbreviations, name, length) ==
    IF length > Len(name)
    THEN potential_abbreviations
    ELSE LET first_part == Slice(name, length)
         IN  IF ~DictHas(potential_abbreviations, first_part)
             THEN \* No clash
                  DictSet(potential_abbreviations, first_part, name)
             ELSE \* A clash was found
                  LET previous_name == DictGet(potential_abbreviations, first_part)
                  IN  IF previous_name # None
                      THEN PrefixLoop(
                               DictSet(DictSet(potential_abbreviations, first_part, None),
                                       Slice(previous_name, length + 1), previous_name),
                               name, length + 1)
                      ELSE PrefixLoop(potential_abbreviations, name, length + 1)

\* The body of the loop over names, for one name.
RegisterName(potential_abbreviations, name) ==
    IF Contains(name, StrNot)
    THEN DictSet(potential_abbreviations, StrNone, name)
    ELSE IF Contains(name, StrAll)
    THEN DictSet(potential_abbreviations, StrAll, name)
    ELSE PrefixLoop(potential_abbreviations, name, 1)

\* The loop over names from position i on.
RECURSIVE NamesLoop(_, _, _)
NamesLoop(potential_abbreviations, names, i) ==
    IF i > Len(names)
    THEN potential_abbreviations
    ELSE NamesLoop(RegisterName(potential_abbreviations, names[i]), names, i + 1)

\* abbreviations: the entries of the potential map whose value is not None, in order.
RECURSIVE DropNone(_)
DropNone(d) ==
    IF d = <<>> THEN <<>>
    ELSE IF d[1][2] # None THEN <<d[1]>> \o DropNone(Tail(d))
    ELSE DropNone(Tail(d))

\* abbreviation_map: name -> key, a later entry of the same name replacing an earlier.
RECURSIVE Inverse(_, _)
Inverse(d, abbreviation_map) ==
    IF d = <<>> THEN abbreviation_map
    ELSE Inverse(Tail(d), DictSet(abbreviation_map, d[1][2], d[1][1]))

generate_name_prompts(names) ==
    LET potential_abbreviations == NamesLoop(<<>>, names, 1)
        abbreviations == DropNone(potential_abbreviations)
        abbreviation_map == Inverse(abbreviations, <<>>)
    IN  IF \E i \in 1..Len(names) : ~DictHas(abbreviation_map, names[i])
        THEN \* abbreviation_map[name] of a name that lost its entry
             [err |-> "KeyError", prompts |-> <<>>, abbreviations |-> <<>>]
        ELSE [err |-> NoErr,
              prompts |-> [i \in 1..Len(names) |->
                              FormatPrompt(names[i], DictGet(abbreviation_map, names[i]))],
              abbreviations |-> abbreviations]

-----------------------------------------------------------------------------
(* build_options *)

GeneratePrompts(names, abbreviation_type) ==
    IF abbreviation_type = ACRONYMN
    THEN generate_city_prompts(names)
    ELSE generate_name_prompts(names)

build_options(names, abbreviation_type) ==
    LET generated == GeneratePrompts(names, abbreviation_type)
        prompts == generated.prompts
        abbreviations == generated.abbreviations
    IN  IF generated.err # NoErr
        THEN [err |-> generated.err, options |-> <<>>, abbreviations |-> <<>>]
        ELSE IF Len(prompts) = 1
        THEN \* city_part is assigned, options is not: the return reads an unbound local
             [err |-> "UnboundLocalError", options |-> <<>>, abbreviations |-> <<>>]
        ELSE IF Len(prompts) = 0
        THEN \* prompts[-1] of an empty list
             [err |-> "IndexError", options |-> <<>>, abbreviations |-> <<>>]
        ELSE LET first == SubSeq(prompts, 1, Len(prompts) - 1)
                 first_part == Join(<<",", " ">>, first)
                 last == prompts[Len(prompts)]
                 options == Join(<<" ", "o", "r", " ">>, <<first_part, last>>)
             IN  [err |-> NoErr, options |-> options, abbreviations |-> abbreviations]

-----------------------------------------------------------------------------
(* show_prompt *)

MAX_PROMPTS == 3

\* No exception in flight.
NoExc == [type |-> "", msg |-> <<>>]

\* The loop over prompt_map.items(): the value of the first entry, in the order
\* of the dict, whose key or value equals the line, all in lowercase; or None.
RECURSIVE Match(_, _)
Match(items, line) ==
    IF items = <<>> THEN None
    ELSE LET lowercase == Lower(line)
         IN  IF lowercase = Lower(items[1][1]) \/ lowercase = Lower(items[1][2])
             THEN items[1][2]
             ELSE Match(Tail(items), line)

\* Exception('Invalid selection: ...') with the lowercased line.
InvalidSelectionLowercase(line) ==
    [type |-> "Exception",
     msg  |-> <<"I","n","v","a","l","i","d"," ","s","e","l","e","c","t","i","o","n",":"," ">>
              \o (IF line = <<>> THEN <<"'", "'">> ELSE Lower(line))]

\* Exception('Invalid selection: {}'.format(raw or "''"))
InvalidSelection(line) ==
    [type |-> "Exception",
     msg  |-> <<"I","n","v","a","l","i","d"," ","s","e","l","e","c","t","i","o","n",":"," ">>
              \o (IF line = <<>> THEN <<"'", "'">> ELSE line)]

\* No call of show_prompt is in progress.
PromptIdle ==
    /\ sp_pc = "idle"
    /\ sp_names = <<>>
    /\ sp_type = ACRONYMN
    /\ word_part = <<>>
    /\ prompt_map = <<>>
    /\ index = 0
    /\ raw = <<>>
    /\ selected = None
    /\ inputs = <<>>
    /\ raised = NoExc

\* show_prompt(names, abbreviation_type, beginning) is entered.
PromptEntered(names, abbreviation_type) ==
    /\ sp_pc = "build"
    /\ sp_names = names
    /\ sp_type = abbreviation_type
    /\ word_part = <<>>
    /\ prompt_map = <<>>
    /\ index = 0
    /\ raw = <<>>
    /\ selected = None
    /\ inputs = <<>>
    /\ raised = NoExc

\* word_part, prompt_map = build_options(names, abbreviation_type); an exception
\* of build_options leaves show_prompt.
ShowPromptBuild ==
    /\ sp_pc = "build"
    /\ LET r == build_options(sp_names, sp_type)
       IN  IF r.err # NoErr
           THEN /\ sp_pc' = "raised"
                /\ raised' = [type |-> r.err, msg |-> <<>>]
                /\ UNCHANGED <<word_part, prompt_map>>
           ELSE /\ sp_pc' = "input"
                /\ word_part' = r.options
                /\ prompt_map' = r.abbreviations
                /\ UNCHANGED raised
    /\ UNCHANGED <<sp_names, sp_type, index, raw, selected, inputs>>
    /\ UNCHANGED <<fnVars, mainVars, waitVars>>

\* One pass of the loop: input() returns a line, the map is searched, and the
\* call returns the match, goes on to the next attempt, or raises after the last.
ShowPromptInput(line) ==
    /\ sp_pc = "input"
    /\ index < MAX_PROMPTS
    /\ raw' = line
    /\ inputs' = Append(inputs, line)
    /\ selected' = Match(prompt_map, line)
    /\ IF selected' # None
       THEN /\ sp_pc' = "returned"
            /\ UNCHANGED <<index, raised>>
       ELSE IF index + 1 < MAX_PROMPTS
       THEN /\ index' = index + 1
            /\ UNCHANGED <<sp_pc, raised>>
       ELSE /\ sp_pc' = "raised"
            /\ raised' = InvalidSelection(line)
            /\ UNCHANGED index
    /\ UNCHANGED <<sp_names, sp_type, word_part, prompt_map>>
    /\ UNCHANGED <<fnVars, mainVars, waitVars>>

\* input() raises EOFError at the end of the input (or KeyboardInterrupt).
ShowPromptEOF ==
    /\ sp_pc = "input"
    /\ sp_pc' = "raised"
    /\ raised' \in {[type |-> "EOFError", msg |-> <<>>],
                    [type |-> "KeyboardInterrupt", msg |-> <<>>]}
    /\ UNCHANGED <<sp_names, sp_type, word_part, prompt_map, index, raw, selected, inputs>>
    /\ UNCHANGED <<fnVars, mainVars, waitVars>>

-----------------------------------------------------------------------------
(* File names and city names *)

IsLetter(c) ==
    \/ \E i \in 1..Len(Uppers) : Uppers[i] = c
    \/ \E i \in 1..Len(Lowers) : Lowers[i] = c

\* s.title(): a letter that starts a run of letters in upper case, the others in lower.
Title(s) ==
    [i \in 1..Len(s) |->
        IF i = 1 \/ ~IsLetter(s[i - 1]) THEN UpperChar(s[i]) ELSE LowerChar(s[i])]

\* s.replace(old, new), for single characters
ReplaceChar(s, old, new) == [i \in 1..Len(s) |-> IF s[i] = old THEN new ELSE s[i]]

\* isfile(file) and file[-4:] == '.csv', for an entry of the directory
is_csv_file(entry) ==
    /\ entry.isfile
    /\ Len(entry.name) >= 4
    /\ SubSeq(entry.name, Len(entry.name) - 3, Len(entry.name)) = <<".","c","s","v">>

\* csv_name[:-4].replace('_', ' ').title()
get_city_name(csv_name) ==
    Title(ReplaceChar(SubSeq(csv_name, 1, Len(csv_name) - 4), "_", " "))

\* '{}.csv'.format(city.replace(' ', '_').lower())
get_csv_name(name) == Lower(ReplaceChar(name, " ", "_")) \o <<".","c","s","v">>

\* [file for file in os.listdir(project_path) if is_csv_file(file)]
RECURSIVE create_city_csv_list(_)
create_city_csv_list(entries) ==
    IF entries = <<>> THEN <<>>
    ELSE IF is_csv_file(entries[1])
    THEN <<entries[1].name>> \o create_city_csv_list(Tail(entries))
    ELSE create_city_csv_list(Tail(entries))

\* list.index(x), counted from 0, for an x in the list
IndexOf(list, x) == (CHOOSE i \in 1..Len(list) : list[i] = x /\ \A j \in 1..(i - 1) : list[j] # x) - 1

-----------------------------------------------------------------------------
(* main, get_filters, load_data, the statistics and prompt_for_raw_stats *)

WEEKDAYS == << <<"M","o","n","d","a","y">>, <<"T","u","e","s","d","a","y">>,
               <<"W","e","d","n","e","s","d","a","y">>, <<"T","h","u","r","s","d","a","y">>,
               <<"F","r","i","d","a","y">>, <<"S","a","t","u","r","d","a","y">>,
               <<"S","u","n","d","a","y">>, <<"a","l","l">> >>

MONTHS == << <<"J","a","n","u","a","r","y">>, <<"F","e","b","r","u","a","r","y">>,
             <<"M","a","r","c","h">>, <<"A","p","r","i","l">>, <<"M","a","y">>,
             <<"J","u","n","e">>, <<"a","l","l">> >>

\* ['month', 'day', 'not at all'], the date filters get_filters offers
DATE_FILTERS == << <<"m","o","n","t","h">>, <<"d","a","y">>,
                   <<"n","o","t"," ","a","t"," ","a","l","l">> >>

ALL == -1

\* max_rows and row_count of prompt_for_raw_stats
max_rows == 25
row_count == 5

\* time_stats, station_stats, trip_duration_stats, user_stats
NumStats == 4

Yes == <<"y","e","s">>
Bye == <<"B","y","e","!">>

NoCsvFound ==
    [type |-> "Exception",
     msg |-> <<"N","o"," ","C","S","V","s"," ","c","o","n","t","a","i","n","i","n","g"," ",
               "s","t","a","t","i","s","t","i","c","a","l"," ","d","a","t","a"," ",
               "f","o","r"," ","a"," ","c","i","t","y"," ","w","e","r","e"," ",
               "f","o","u","n","d">>]

\* main is not running.
\* thread is None
ThreadNone == 0

\* min_intervals and max_intervals of run
min_intervals == 48

max_intervals == 48

\* The Thread objects that can exist at a time.
MaxThreads == 2

ThreadIds == 1..MaxThreads

NoThread == [st |-> "free", i |-> 0]

\* wait, thread, kill = False, None, False, and no Thread object.
WaitIdle ==
    /\ wait = FALSE
    /\ thread = ThreadNone
    /\ kill = FALSE
    /\ threads = [t \in ThreadIds |-> NoThread]
    /\ w_pc = "none"

\* Thread.is_alive()
is_alive(t) == threads[t].st = "running"

\* show_on_wait(): wait = True, a new Thread is created, bound to the global
\* thread and started.
show_on_wait ==
    /\ wait' = TRUE
    /\ \E t \in ThreadIds :
          /\ threads[t].st = "free"
          /\ \A u \in 1..(t - 1) : threads[u].st # "free"
          /\ thread' = t
          /\ threads' = [threads EXCEPT ![t] = [st |-> "running", i |-> 0]]
    /\ UNCHANGED kill

\* The test at the top of the loop of run: kill or (not wait and i >= min_intervals)
RunBreaks(t) == kill \/ (~wait /\ threads[t].i >= min_intervals)

\* One pass of the loop of run in thread t: the test fails, the thread sleeps
\* and prints a frame of the animation.
ThreadIterate(t) ==
    /\ is_alive(t)
    /\ threads[t].i < max_intervals
    /\ ~RunBreaks(t)
    /\ threads' = [threads EXCEPT ![t].i = @ + 1]
    /\ UNCHANGED <<wait, thread, kill, w_pc, fnVars, spVars, mainVars>>

\* The loop of run ends, by its range or by break: wait = False, and the
\* thread ends. An object the global thread no longer refers to is gone.
ThreadExit(t) ==
    /\ is_alive(t)
    /\ threads[t].i = max_intervals \/ RunBreaks(t)
    /\ wait' = FALSE
    /\ threads' = [threads EXCEPT ![t] = IF thread = t
                                         THEN [st |-> "finished", i |-> 0]
                                         ELSE NoThread]
    /\ UNCHANGED <<thread, kill, w_pc, fnVars, spVars, mainVars>>

\* A join that returns whether or not the thread has ended.
ThreadJoinedAtOnce == TRUE

\* `if not thread is None: thread.join()` of stop_waiting is passed: there is
\* no thread, or the thread has ended.
ThreadJoined == IF thread = ThreadNone THEN TRUE ELSE ~is_alive(thread)

\* stop_waiting(kill_thread), up to the join: wait = False, kill = kill_thread
StopWaitingBegin(kill_thread) ==
    /\ wait' = FALSE
    /\ kill' = kill_thread
    /\ UNCHANGED <<thread, threads>>

\* stop_waiting from the join on: thread = None, kill = False
StopWaitingEnd ==
    /\ ThreadJoined
    /\ thread' = ThreadNone
    /\ threads' = [t \in ThreadIds |->
                     IF t = thread /\ threads[t].st = "finished" THEN NoThread
                     ELSE threads[t]]
    /\ kill' = FALSE
    /\ UNCHANGED wait

MainIdle ==
    /\ pc = "idle"
    /\ listing = <<>>
    /\ selected_city = <<>>
    /\ date_filter = <<>>
    /\ month = ALL
    /\ day = ALL
    /\ loaded = FALSE
    /\ nrows = 0
    /\ stat = 0
    /\ row = 0
    /\ printed = <<>>
    /\ restart = <<>>
    /\ shown = <<>>
    /\ WaitIdle

\* The call show_prompt(names, abbreviation_type, beginning) of get_filters.
EnterPrompt(names, abbreviation_type) ==
    /\ sp_pc' = "build"
    /\ sp_names' = names
    /\ sp_type' = abbreviation_type
    /\ word_part' = <<>>
    /\ prompt_map' = <<>>
    /\ index' = 0
    /\ raw' = <<>>
    /\ selected' = None
    /\ inputs' = <<>>
    /\ raised' = NoExc

\* The frame of show_prompt is left, with exception e in flight (NoExc for none).
LeavePrompt(e) ==
    /\ sp_pc' = "idle"
    /\ sp_names' = <<>>
    /\ sp_type' = ACRONYMN
    /\ word_part' = <<>>
    /\ prompt_map' = <<>>
    /\ index' = 0
    /\ raw' = <<>>
    /\ selected' = None
    /\ inputs' = <<>>
    /\ raised' = e

\* A pass of the while loop of main enters get_filters: the CSV files are listed
\* and the city prompt is entered, or the exception of an empty list is raised.
MainGetFilters ==
    /\ pc = "get_filters"
    /\ raised = NoExc
    /\ selected_city' = <<>>
    /\ date_filter' = <<>>
    /\ month' = ALL
    /\ day' = ALL
    /\ loaded' = FALSE
    /\ nrows' = 0
    /\ stat' = 0
    /\ row' = 0
    /\ LET city_csv_files == create_city_csv_list(listing)
           cities == [i \in 1..Len(city_csv_files) |-> get_city_name(city_csv_files[i])]
       IN  IF Len(city_csv_files) = 0
           THEN /\ LeavePrompt(NoCsvFound)
                /\ shown' = <<>>
                /\ pc' = "get_filters"
           ELSE /\ EnterPrompt(cities, ACRONYMN)
                /\ shown' = <<"city">>
                /\ pc' = "city"
    /\ printed' = <<>>
    /\ restart' = <<>>
    /\ UNCHANGED <<waitVars, fnVars, listing>>

\* The city prompt has returned: the date filter prompt is entered.
MainCitySelected ==
    /\ pc = "city"
    /\ sp_pc = "returned"
    /\ selected_city' = selected
    /\ EnterPrompt(DATE_FILTERS, PROPER_NAME)
    /\ shown' = Append(shown, "date_filter")
    /\ pc' = "date_filter"
    /\ UNCHANGED <<waitVars, fnVars, listing, date_filter, month, day, loaded, nrows, stat, row,
                   printed, restart>>

\* The date filter prompt has returned: the month or the day prompt is entered,
\* or get_filters returns without a filter.
MainDateFilterSelected ==
    /\ pc = "date_filter"
    /\ sp_pc = "returned"
    /\ date_filter' = selected
    /\ IF selected = <<"m","o","n","t","h">>
       THEN /\ EnterPrompt(MONTHS, PROPER_NAME)
            /\ shown' = Append(shown, "month")
            /\ pc' = "month"
       ELSE IF selected = <<"d","a","y">>
       THEN /\ EnterPrompt(WEEKDAYS, PROPER_NAME)
            /\ shown' = Append(shown, "day")
            /\ pc' = "day"
       ELSE /\ LeavePrompt(NoExc)
            /\ shown' = shown
            /\ pc' = "load_data"
    /\ UNCHANGED <<waitVars, fnVars, listing, selected_city, month, day, loaded, nrows, stat, row,
                   printed, restart>>

\* The month prompt has returned: get_filters returns.
MainMonthSelected ==
    /\ pc = "month"
    /\ sp_pc = "returned"
    /\ month' = IF selected # <<"a","l","l">> THEN IndexOf(MONTHS, selected) + 1 ELSE ALL
    /\ LeavePrompt(NoExc)
    /\ pc' = "load_data"
    /\ UNCHANGED <<waitVars, fnVars, listing, selected_city, date_filter, day, loaded, nrows, stat, row,
                   printed, restart, shown>>

\* The day prompt has returned: get_filters returns.
MainDaySelected ==
    /\ pc = "day"
    /\ sp_pc = "returned"
    /\ day' = IF selected # <<"a","l","l">> THEN IndexOf(WEEKDAYS, selected) ELSE ALL
    /\ LeavePrompt(NoExc)
    /\ pc' = "load_data"
    /\ UNCHANGED <<waitVars, fnVars, listing, selected_city, date_filter, month, loaded, nrows, stat, row,
                   printed, restart, shown>>

\* The numbers of rows a data frame is given.
RowCounts == {0, 3, 30}

\* The directory has the file get_csv_name(selected_city) names.
LoadDataFound ==
    \E i \in 1..Len(listing) :
        listing[i].isfile /\ listing[i].name = get_csv_name(selected_city)

\* load_data returns the data frame.
LoadDataReturns ==
    /\ LoadDataFound
    /\ loaded' = TRUE
    /\ nrows' \in RowCounts
    /\ stat' = 1
    /\ pc' = "stats"
    /\ UNCHANGED raised

\* pandas raises in load_data: there is no such file, or on what it reads.
LoadDataRaises ==
    /\ raised' = [type |-> IF LoadDataFound THEN "KeyError" ELSE "FileNotFoundError",
                  msg |-> get_csv_name(selected_city)]
    /\ UNCHANGED <<loaded, nrows, stat, pc>>

LoadDataFrame ==
    UNCHANGED <<fnVars, sp_pc, sp_names, sp_type, word_part, prompt_map, index, raw,
                selected, inputs, listing, selected_city, date_filter, month, day, row, printed,
                restart, shown>>

\* load_data(csv, month, day): pandas reads the file get_csv_name(selected_city) names. It
\* raises when the directory has no such file, and may raise on what it reads.
\* The animation is shown and stopped within the call.
MainLoadData ==
    /\ pc = "load_data"
    /\ raised = NoExc
    /\ LoadDataReturns \/ LoadDataRaises
    /\ LoadDataFrame
    /\ UNCHANGED waitVars

\* The statistics are computed and printed, up to the call of prompt_for_raw_stats.
StatsReturns ==
    /\ row' = 0
    /\ pc' = "raw"
    /\ UNCHANGED raised

\* pandas raises (the mode of an empty column, a column the file lacks).
StatsRaises ==
    /\ raised' = [type |-> "KeyError", msg |-> <<>>]
    /\ UNCHANGED <<row, pc>>

StatsFrame ==
    UNCHANGED <<fnVars, sp_pc, sp_names, sp_type, word_part, prompt_map, index, raw,
                selected, inputs, listing, selected_city, date_filter, month, day, loaded, nrows,
                stat, printed, restart, shown>>

\* One of time_stats, station_stats, trip_duration_stats, user_stats, up to its
\* call of prompt_for_raw_stats: the statistics are computed and printed, or
\* pandas raises. The animation is shown and stopped within the call.
MainStats ==
    /\ pc = "stats"
    /\ raised = NoExc
    /\ StatsReturns \/ StatsRaises
    /\ StatsFrame
    /\ UNCHANGED waitVars

\* prompt_for_raw_stats has returned: the next statistics function, or the
\* restart prompt after the last.
AfterRawStats ==
    IF stat < NumStats
    THEN /\ stat' = stat + 1
         /\ pc' = "stats"
    ELSE /\ stat' = stat
         /\ pc' = "restart"

\* display_data = input(...) of prompt_for_raw_stats, and the first pass of its loop
RawPrompt(line) ==
    /\ pc = "raw"
    /\ raised = NoExc
    /\ IF Lower(line) = Yes /\ row < max_rows /\ row < nrows
       THEN /\ row' = row + row_count
            /\ pc' = "more"
            /\ UNCHANGED stat
       ELSE /\ AfterRawStats
            /\ UNCHANGED row
    /\ UNCHANGED <<waitVars, fnVars, spVars, listing, selected_city, date_filter, month, day, loaded, nrows,
                   printed, restart, shown>>

\* display_more_data = input(...), and the next pass of the loop
RawMore(line) ==
    /\ pc = "more"
    /\ raised = NoExc
    /\ IF Lower(line) = Yes /\ row < max_rows /\ row < nrows
       THEN /\ row' = row + row_count
            /\ UNCHANGED <<pc, stat>>
       ELSE /\ AfterRawStats
            /\ UNCHANGED row
    /\ UNCHANGED <<waitVars, fnVars, spVars, listing, selected_city, date_filter, month, day, loaded, nrows,
                   printed, restart, shown>>

\* input() of prompt_for_raw_stats raises EOFError or KeyboardInterrupt.
RawEOF ==
    /\ pc \in {"raw", "more"}
    /\ raised = NoExc
    /\ raised' \in {[type |-> "EOFError", msg |-> <<>>],
                    [type |-> "KeyboardInterrupt", msg |-> <<>>]}
    /\ UNCHANGED <<fnVars, sp_pc, sp_names, sp_type, word_part, prompt_map, index, raw,
                   selected, inputs, mainVars, waitVars>>

\* An exception is in flight inside the try block of main.
RaisedInTry ==
    /\ pc \in {"get_filters", "city", "date_filter", "month", "day", "load_data",
               "stats", "raw", "more"}
    /\ raised # NoExc

\* What the except clauses do after stop_waiting(True): Bye and the end of the
\* loop on EOFError and KeyboardInterrupt, otherwise the message of the
\* exception and the restart prompt.
ExceptClause ==
    /\ IF raised.type \in {"EOFError", "KeyboardInterrupt"}
       THEN /\ printed' = Bye
            /\ pc' = "exit"
       ELSE /\ printed' = raised.msg
            /\ pc' = "restart"
    /\ LeavePrompt(NoExc)
    /\ UNCHANGED <<fnVars, listing, selected_city, date_filter, month, day, loaded, nrows, stat,
                   row, restart, shown>>

\* The except clauses of main, for an exception raised inside the try block.
MainExcept ==
    /\ RaisedInTry
    /\ ExceptClause
    /\ UNCHANGED waitVars

\* MainRestart that compares the answer as typed: restart != 'yes'.
MainRestartExact(line) ==
    /\ pc = "restart"
    /\ restart' = line
    /\ IF line # Yes
       THEN pc' = "exit"
       ELSE pc' = "get_filters"
    /\ UNCHANGED <<waitVars, fnVars, spVars, listing, selected_city, date_filter, month, day, loaded,
                   nrows, stat, row, printed, shown>>

\* restart = input(...): another pass of the loop on yes, in any case of the
\* letters, the end of the loop on any other line.
MainRestart(line) ==
    /\ pc = "restart"
    /\ restart' = line
    /\ IF Lower(line) # Yes
       THEN pc' = "exit"
       ELSE pc' = "get_filters"
    /\ UNCHANGED <<waitVars, fnVars, spVars, listing, selected_city, date_filter, month, day, loaded, nrows,
                   stat, row, printed, shown>>

\* The restart input raises: Bye and the end of the loop.
MainRestartEOF ==
    /\ pc = "restart"
    /\ printed' = Bye
    /\ pc' = "exit"
    /\ UNCHANGED <<waitVars, fnVars, spVars, listing, selected_city, date_filter, month, day, loaded, nrows,
                   stat, row, restart, shown>>

-----------------------------------------------------------------------------
(* The inputs the functions are applied to. *)

\* All sequences over S of length 0..n.
SeqsUpTo(S, n) == UNION {[1..k -> S] : k \in 0..n}

\* The characters of the enumerated names.
NameChars == {"a", "b"}

\* Every name of at most MaxLen characters, the empty name included.
EnumNames == SeqsUpTo(NameChars, MaxLen)

\* Name lists with catch-all names, with names that reach the key "none", with
\* longer chains of shared prefixes, and with names that differ by case only.
CuratedNameLists ==
    { DATE_FILTERS, MONTHS, WEEKDAYS,
      << <<"n","o","t","a">>, <<"n","o","n">>, <<"n","o","n","e","x">> >>,
      << <<"n","o","t","a">>, <<"n","o">>, <<"n","o","n","e","x">> >>,
      << <<"n","o","n","e","x">>, <<"n","o","n">>, <<"n","o","t","a">> >>,
      << <<"n","o","t","a">>, <<"n","o","n","e","x">>, <<"n","o","n","e","y">> >>,
      << <<"n","o","t"," ","a">>, <<"n","o","t"," ","b">> >>,
      << <<"a","l","l">>, <<"b","a","l","l">> >>,
      << <<"n","o","t"," ","a","l","l">>, <<"a","l","l">> >>,
      << <<"a","l","l">>, <<"x">>, <<"n","o","t","a">> >>,
      << <<"a","b","c">>, <<"a","b","d">>, <<"a","b","e">> >>,
      << <<"a","b","c">>, <<"a","b","d">>, <<"a","b">> >>,
      << <<"a","b">>, <<"a","b","c">>, <<"a","b","d">> >>,
      << <<"a">>, <<"A">> >>,
      << <<"a","b">>, <<"A","B">>, <<"a","c">> >> }

NameLists == SeqsUpTo(EnumNames, MaxNames) \cup CuratedNameLists

\* City names: one token, several tokens, equal initials, and names with an
\* empty token (a leading space, a double space, the empty name).
CityNamePool ==
    { <<"A">>, <<"A","b">>, <<"A"," ","b">>, <<"a"," ","B">>, <<"b"," ","A">>,
      <<"A","b"," ","c">>, <<"A"," ","b","c">>, <<" ","A">>, <<"A"," "," ","b">>, <<>> }

CuratedCityLists ==
    { << <<"C","h","i","c","a","g","o">>,
         <<"N","e","w"," ","Y","o","r","k"," ","C","i","t","y">>,
         <<"W","a","s","h","i","n","g","t","o","n">> >>,
      << <<"A"," ","b">>, <<"A","b">>, <<"A"," ","b","c">>, <<"A">> >> }

CityLists == SeqsUpTo(CityNamePool, MaxNames) \cup CuratedCityLists

Calls ==
    [fn : {"generate_name_prompts"}, names : NameLists, abbreviation_type : {PROPER_NAME}]
    \cup [fn : {"generate_city_prompts"}, names : CityLists, abbreviation_type : {ACRONYMN}]
    \cup [fn : {"build_options"}, names : NameLists \cup CityLists,
          abbreviation_type : {ACRONYMN, PROPER_NAME}]

\* Nothing has returned or raised yet.
NoRet == [fn |-> "", err |-> NoErr, prompts |-> <<>>, options |-> <<>>,
          abbreviations |-> <<>>]

-----------------------------------------------------------------------------
(* The functions applied to one input each. *)

FnInit ==
    /\ call \in Calls
    /\ ret = NoRet
    /\ PromptIdle
    /\ MainIdle

CallGenerateNamePrompts ==
    /\ call.fn = "generate_name_prompts"
    /\ ret = NoRet
    /\ LET r == generate_name_prompts(call.names)
       IN  ret' = [fn |-> call.fn, err |-> r.err, prompts |-> r.prompts,
                   options |-> <<>>, abbreviations |-> r.abbreviations]
    /\ UNCHANGED <<call, spVars, mainVars, waitVars>>

CallGenerateCityPrompts ==
    /\ call.fn = "generate_city_prompts"
    /\ ret = NoRet
    /\ LET r == generate_city_prompts(call.names)
       IN  ret' = [fn |-> call.fn, err |-> r.err, prompts |-> r.prompts,
                   options |-> <<>>, abbreviations |-> r.abbreviations]
    /\ UNCHANGED <<call, spVars, mainVars, waitVars>>

\* prompts records the local of build_options the options are strung from.
CallBuildOptions ==
    /\ call.fn = "build_options"
    /\ ret = NoRet
    /\ LET r == build_options(call.names, call.abbreviation_type)
           g == GeneratePrompts(call.names, call.abbreviation_type)
       IN  ret' = [fn |-> call.fn, err |-> r.err, prompts |-> g.prompts,
                   options |-> r.options, abbreviations |-> r.abbreviations]
    /\ UNCHANGED <<call, spVars, mainVars, waitVars>>

FnNext ==
    \/ CallGenerateNamePrompts
    \/ CallGenerateCityPrompts
    \/ CallBuildOptions

SpecFn == FnInit /\ [][FnNext]_vars

-----------------------------------------------------------------------------
(* show_prompt applied to one list of names, on every sequence of input lines. *)

\* The lines input() can return.
Lines ==
    { <<>>, <<"c">>, <<"n","y","c">>, <<"m">>, <<"d">>, <<"n","o","n","e">>, <<"f">>,
      <<"a","l","l">>, <<"a">>, <<"A","B">>, <<"X","Y","Z">>,
      <<"y","e","s">>, <<"Y","E","S">>, <<"n","o">> }

\* The calls get_filters makes, and calls with one name, with no name, with a
\* name that is a left-prefix of an earlier one, with names that differ by case
\* only, and with a key that is another entry's name.
PromptCalls ==
    { [names |-> << <<"C","h","i","c","a","g","o">>,
                    <<"N","e","w"," ","Y","o","r","k"," ","C","i","t","y">>,
                    <<"W","a","s","h","i","n","g","t","o","n">> >>,
       abbreviation_type |-> ACRONYMN],
      [names |-> DATE_FILTERS, abbreviation_type |-> PROPER_NAME],
      [names |-> MONTHS, abbreviation_type |-> PROPER_NAME],
      [names |-> WEEKDAYS, abbreviation_type |-> PROPER_NAME],
      [names |-> << <<"C","h","i","c","a","g","o">> >>, abbreviation_type |-> ACRONYMN],
      [names |-> << <<"m","o","n","t","h">> >>, abbreviation_type |-> PROPER_NAME],
      [names |-> <<>>, abbreviation_type |-> PROPER_NAME],
      [names |-> << <<"a","b">>, <<"a">> >>, abbreviation_type |-> PROPER_NAME],
      [names |-> << <<"a">>, <<"a","b">> >>, abbreviation_type |-> PROPER_NAME],
      [names |-> << <<"a">>, <<"A">> >>, abbreviation_type |-> PROPER_NAME],
      [names |-> << <<"A">>, <<"a">> >>, abbreviation_type |-> PROPER_NAME],
      [names |-> << <<"A"," ","b">>, <<"A","b">> >>, abbreviation_type |-> ACRONYMN],
      [names |-> << <<"A","b">>, <<"A"," ","b">> >>, abbreviation_type |-> ACRONYMN],
      [names |-> << <<"A"," ","b">>, <<"A"," ","b","c">> >>, abbreviation_type |-> ACRONYMN] }

PromptInit ==
    /\ call = [fn |-> "", names |-> <<>>, abbreviation_type |-> ACRONYMN]
    /\ ret = NoRet
    /\ \E c \in PromptCalls : PromptEntered(c.names, c.abbreviation_type)
    /\ MainIdle

PromptNext ==
    \/ ShowPromptBuild
    \/ \E line \in Lines : ShowPromptInput(line)
    \/ ShowPromptEOF

SpecPrompt == PromptInit /\ [][PromptNext]_vars

-----------------------------------------------------------------------------
(* The program: main on one directory, on every sequence of input lines. *)

File(name) == [name |-> name, isfile |-> TRUE]

\* The directories main is run in.
Listings ==
    { <<>>,
      << File(<<"n","o","t","e","s",".","t","x","t">>) >>,
      << [name |-> <<"o","l","d",".","c","s","v">>, isfile |-> FALSE] >>,
      << File(<<"c","h","i","c","a","g","o",".","c","s","v">>) >>,
      << File(<<"c","h","i","c","a","g","o",".","c","s","v">>),
         File(<<"n","e","w","_","y","o","r","k","_","c","i","t","y",".","c","s","v">>),
         File(<<"n","o","t","e","s",".","t","x","t">>),
         File(<<"w","a","s","h","i","n","g","t","o","n",".","c","s","v">>) >>,
      << File(<<"C","h","i","c","a","g","o",".","c","s","v">>),
         File(<<"w","a","s","h","i","n","g","t","o","n",".","c","s","v">>) >> }

\* The lines input() can return in a session.
SessionLines ==
    { <<>>, <<"c">>, <<"w">>, <<"m">>, <<"d">>, <<"n","o","n","e">>, <<"f">>,
      <<"a","l","l">>, <<"X","Y","Z">>, <<"y","e","s">>, <<"Y","E","S">>, <<"n","o">> }

Init ==
    /\ call = [fn |-> "", names |-> <<>>, abbreviation_type |-> ACRONYMN]
    /\ ret = NoRet
    /\ PromptIdle
    /\ pc = "get_filters"
    /\ listing \in Listings
    /\ selected_city = <<>>
    /\ date_filter = <<>>
    /\ month = ALL
    /\ day = ALL
    /\ loaded = FALSE
    /\ nrows = 0
    /\ stat = 0
    /\ row = 0
    /\ printed = <<>>
    /\ restart = <<>>
    /\ shown = <<>>
    /\ WaitIdle

Next ==
    \/ MainGetFilters
    \/ ShowPromptBuild
    \/ \E line \in SessionLines : ShowPromptInput(line)
    \/ ShowPromptEOF
    \/ MainCitySelected
    \/ MainDateFilterSelected
    \/ MainMonthSelected
    \/ MainDaySelected
    \/ MainLoadData
    \/ MainStats
    \/ \E line \in SessionLines : RawPrompt(line)
    \/ \E line \in SessionLines : RawMore(line)
    \/ RawEOF
    \/ MainExcept
    \/ \E line \in SessionLines : MainRestart(line)
    \/ MainRestartEOF

Spec == Init /\ [][Next]_vars

-----------------------------------------------------------------------------
(* main with the progress animation: load_data and the statistics functions *)
(* step by step, next to the thread show_on_wait starts.                    *)

\* show_on_wait() of load_data or of a statistics function
WaitShowOnWait ==
    /\ pc \in {"load_data", "stats"}
    /\ raised = NoExc
    /\ w_pc = "none"
    /\ show_on_wait
    /\ w_pc' = "work"
    /\ UNCHANGED <<fnVars, spVars, mainVars>>

\* An exception leaves the code between show_on_wait() and stop_waiting():
\* pandas raises, or KeyboardInterrupt is delivered there.
WaitWorkRaises ==
    /\ w_pc = "work"
    /\ \/ pc = "load_data" /\ LoadDataRaises /\ LoadDataFrame
       \/ pc = "stats" /\ StatsRaises /\ StatsFrame
       \/ /\ raised' = [type |-> "KeyboardInterrupt", msg |-> <<>>]
          /\ UNCHANGED <<fnVars, sp_pc, sp_names, sp_type, word_part, prompt_map, index,
                         raw, selected, inputs, mainVars>>
    /\ w_pc' = "raised"
    /\ UNCHANGED <<wait, thread, kill, threads>>

\* The work is done and stop_waiting() is called: it runs up to the join.
WaitStopWaiting ==
    /\ w_pc = "work"
    /\ pc = "load_data" => LoadDataFound
    /\ StopWaitingBegin(FALSE)
    /\ w_pc' = "join"
    /\ UNCHANGED <<fnVars, spVars, mainVars>>

\* The join is passed, stop_waiting() returns, and load_data returns or the
\* statistics function goes on to prompt_for_raw_stats.
WaitReturns ==
    /\ w_pc = "join"
    /\ StopWaitingEnd
    /\ w_pc' = "none"
    /\ \/ pc = "load_data" /\ LoadDataReturns /\ LoadDataFrame
       \/ pc = "stats" /\ StatsReturns /\ StatsFrame

\* An except clause of main calls stop_waiting(True): it runs up to the join.
WaitExcept ==
    /\ RaisedInTry
    /\ w_pc \in {"none", "raised"}
    /\ StopWaitingBegin(TRUE)
    /\ w_pc' = "except_join"
    /\ UNCHANGED <<fnVars, spVars, mainVars>>

\* The join is passed, stop_waiting(True) returns, and the except clause goes on.
WaitExceptReturns ==
    /\ w_pc = "except_join"
    /\ StopWaitingEnd
    /\ w_pc' = "none"
    /\ ExceptClause

WaitNext ==
    \/ MainGetFilters
    \/ ShowPromptBuild
    \/ \E line \in SessionLines : ShowPromptInput(line)
    \/ ShowPromptEOF
    \/ MainCitySelected
    \/ MainDateFilterSelected
    \/ MainMonthSelected
    \/ MainDaySelected
    \/ WaitShowOnWait
    \/ WaitWorkRaises
    \/ WaitStopWaiting
    \/ WaitReturns
    \/ \E t \in ThreadIds : ThreadIterate(t)
    \/ \E t \in ThreadIds : ThreadExit(t)
    \/ \E line \in SessionLines : RawPrompt(line)
    \/ \E line \in SessionLines : RawMore(line)
    \/ RawEOF
    \/ WaitExcept
    \/ WaitExceptReturns
    \/ \E line \in SessionLines : MainRestart(line)
    \/ MainRestartEOF

SpecWait == Init /\ [][WaitNext]_vars

-----------------------------------------------------------------------------
(* Properties of the generators and of build_options, under SpecFn. *)

\* The call of fn has ended, by a return or by an exception.
Ended(fn) == call.fn = fn /\ ret.fn = fn

IsPrefix(p, s) == Len(p) <= Len(s) /\ SubSeq(s, 1, Len(p)) = p

IsProperPrefix(p, s) == Len(p) < Len(s) /\ IsPrefix(p, s)

Distinct(names) ==
    \A i, j \in 1..Len(names) : i # j => names[i] # names[j]

\* A non-empty list of pairwise-distinct non-empty names without a space, "not" or "all".
PlainNames(names) ==
    /\ Len(names) >= 1
    /\ Distinct(names)
    /\ \A i \in 1..Len(names) :
          /\ Len(names[i]) >= 1
          /\ ~Contains(names[i], <<" ">>)
          /\ ~Contains(names[i], <<"n","o","t">>)
          /\ ~Contains(names[i], <<"a","l","l">>)

\* The keys of a map under which a name is found.
KeysOf(abbreviations, name) ==
    {abbreviations[j][1] : j \in {k \in 1..Len(abbreviations) : abbreviations[k][2] = name}}

\* The key of a name that has exactly one.
KeyOf(abbreviations, name) == CHOOSE k \in KeysOf(abbreviations, name) : TRUE

\* C2: for every non-empty list of pairwise-distinct names without a space, "not"
\* or "all", generate_name_prompts returns without error a map with exactly one
\* entry per name, whose key is a non-empty left-prefix of the name and maps back
\* to the name.
C2_RoundTrip ==
    (Ended("generate_name_prompts") /\ PlainNames(call.names)) =>
        /\ ret.err = NoErr
        /\ Len(ret.abbreviations) = Len(call.names)
        /\ \A i \in 1..Len(call.names) :
              /\ Cardinality(KeysOf(ret.abbreviations, call.names[i])) = 1
              /\ LET key == KeyOf(ret.abbreviations, call.names[i])
                 IN  /\ Len(key) >= 1
                     /\ IsPrefix(key, call.names[i])
                     /\ DictGet(ret.abbreviations, key) = call.names[i]

\* C3: build_options on a list of exactly one name returns the single display
\* string "<name> [<abbreviation>]" as the options text, with the abbreviation map.
C3_SingleName ==
    (Ended("build_options") /\ Len(call.names) = 1 /\ Len(ret.prompts) = 1) =>
        /\ ret.err = NoErr
        /\ ret.options = ret.prompts[1]
        /\ ret.abbreviations =
              GeneratePrompts(call.names, call.abbreviation_type).abbreviations

\* C4: in the map generate_name_prompts returns, every name containing "not" is
\* the value of key "none", and every name containing "all" but not "not" is the
\* value of key "all".
C4_CatchAllKeys ==
    (Ended("generate_name_prompts") /\ ret.err = NoErr) =>
        \A i \in 1..Len(call.names) :
            LET name == call.names[i]
            IN  /\ Contains(name, <<"n","o","t">>) =>
                      /\ DictHas(ret.abbreviations, <<"n","o","n","e">>)
                      /\ DictGet(ret.abbreviations, <<"n","o","n","e">>) = name
                /\ (Contains(name, <<"a","l","l">>) /\ ~Contains(name, <<"n","o","t">>)) =>
                      /\ DictHas(ret.abbreviations, <<"a","l","l">>)
                      /\ DictGet(ret.abbreviations, <<"a","l","l">>) = name

\* The shortest left-prefix of names[i] that is a left-prefix of no other name of
\* the list, the whole name when there is none.
MinimalPrefix(names, i) ==
    LET free == {n \in 1..Len(names[i]) :
                    \A j \in 1..Len(names) :
                        j # i => ~IsPrefix(SubSeq(names[i], 1, n), names[j])}
    IN  IF free = {} THEN names[i]
        ELSE SubSeq(names[i], 1, CHOOSE n \in free : \A m \in free : n <= m)

\* Every name has its minimal key, and every shorter left-prefix is shared.
MinimalKeys(names, abbreviations) ==
    \A i \in 1..Len(names) :
        /\ Cardinality(KeysOf(abbreviations, names[i])) = 1
        /\ KeyOf(abbreviations, names[i]) = MinimalPrefix(names, i)
        /\ \A n \in 1..(Len(KeyOf(abbreviations, names[i])) - 1) :
              \E j \in 1..Len(names) :
                  j # i /\ IsPrefix(SubSeq(names[i], 1, n), names[j])

\* C5, as claimed: on every plain list on which generate_name_prompts returns,
\* each key is the shortest left-prefix of its name that is a left-prefix of no
\* other name (the whole name when all are shared), and no key is a proper
\* left-prefix of another name's key.
C5_MinimalKeys ==
    (Ended("generate_name_prompts") /\ PlainNames(call.names) /\ ret.err = NoErr) =>
        /\ MinimalKeys(call.names, ret.abbreviations)
        /\ \A i, j \in 1..Len(call.names) :
              ~IsProperPrefix(KeyOf(ret.abbreviations, call.names[i]),
                              KeyOf(ret.abbreviations, call.names[j]))

\* C5, amended: each key is the shortest left-prefix of its name that is a
\* left-prefix of no other name (the whole name when all are shared), and a key
\* is a proper left-prefix of another name's key only when it is the whole of a
\* name that is itself a left-prefix of that other name.
C5_MinimalKeysAmended ==
    (Ended("generate_name_prompts") /\ PlainNames(call.names) /\ ret.err = NoErr) =>
        /\ MinimalKeys(call.names, ret.abbreviations)
        /\ \A i, j \in 1..Len(call.names) :
              IsProperPrefix(KeyOf(ret.abbreviations, call.names[i]),
                             KeyOf(ret.abbreviations, call.names[j]))
              => /\ KeyOf(ret.abbreviations, call.names[i]) = call.names[i]
                 /\ IsProperPrefix(call.names[i], call.names[j])

\* generate_name_prompts has returned on a plain list in which a name that is a
\* left-prefix of a later name keeps its whole name as key, and two other names
\* were told apart by a longer prefix.
C5_Witness ==
    /\ Ended("generate_name_prompts")
    /\ PlainNames(call.names)
    /\ ret.err = NoErr
    /\ \E i, j \in 1..Len(call.names) :
          /\ i < j
          /\ IsProperPrefix(call.names[i], call.names[j])
          /\ Len(KeyOf(ret.abbreviations, call.names[j])) >= 2

\* The characters of a name that start a token: the first, and each after a space.
Initials(name) ==
    LET starts == {i \in 1..Len(name) : i = 1 \/ name[i - 1] = " "}
        Nth(S, n) == CHOOSE i \in S : Cardinality({j \in S : j < i}) = n - 1
    IN  [n \in 1..Cardinality(starts) |-> name[Nth(starts, n)]]

\* A name made of non-empty tokens separated by single spaces.
WellFormedCity(name) ==
    /\ Len(name) >= 1
    /\ name[1] # " "
    /\ name[Len(name)] # " "
    /\ \A i \in 1..(Len(name) - 1) : ~(name[i] = " " /\ name[i + 1] = " ")

RECURSIVE Enumeration(_)
Enumeration(display) ==
    IF Len(display) = 2
    THEN display[1] \o <<" ", "o", "r", " ">> \o display[2]
    ELSE display[1] \o <<",", " ">> \o Enumeration(Tail(display))

\* The display strings are one "<name> [<key>]" per name, in input order, and
\* the options text is the first n-1 of them joined by ", ", then " or " and
\* the last.
EnumeratesNames ==
    /\ ret.err = NoErr
    /\ Len(ret.prompts) = Len(call.names)
    /\ \A i \in 1..Len(call.names) :
          /\ IsPrefix(call.names[i] \o <<" ", "[">>, ret.prompts[i])
          /\ ret.prompts[i][Len(ret.prompts[i])] = "]"
    /\ ret.options = Enumeration(ret.prompts)

\* C8: build_options called with n >= 2 names returns as options text the
\* first n-1 display strings joined by ", ", then " or " and the last display
\* string, in input order, each display string exactly once.
C8_Enumeration ==
    (Ended("build_options") /\ Len(call.names) >= 2) => EnumeratesNames

\* The same on the calls whose generator produced the display strings: the
\* joining of lines 141-146 is an enumeration whenever it is reached.
C8_EnumerationOnceGenerated ==
    (Ended("build_options") /\ Len(call.names) >= 2 /\ ret.err = NoErr) =>
        EnumeratesNames

-----------------------------------------------------------------------------
(* Properties of show_prompt, under SpecPrompt. *)

\* The entries of a map that a line matches: the line equals the key or the
\* name, all in lowercase.
MatchingEntries(items, line) ==
    {j \in 1..Len(items) :
        Lower(line) = Lower(items[j][1]) \/ Lower(line) = Lower(items[j][2])}

MatchingNames(items, line) == {items[j][2] : j \in MatchingEntries(items, line)}

\* The map of show_prompt's names, as the abbreviator makes it.
AbbreviatorMap == GeneratePrompts(sp_names, sp_type).abbreviations

InvalidSelectionText ==
    <<"I","n","v","a","l","i","d"," ","s","e","l","e","c","t","i","o","n",":"," ">>

\* show_prompt has left by an exception that is not the end of the input.
Failed == sp_pc = "raised" /\ raised.type \notin {"EOFError", "KeyboardInterrupt"}

\* C1: show_prompt, on a list of at least one name, reads at most 3 lines; it returns the name of the entry
\* matched by the first matching line, line i, after exactly i lines; it fails,
\* with the invalid-selection error, after exactly 3 lines of which none matches,
\* and never earlier.
C1_ThreeAttempts ==
    Len(sp_names) >= 1 =>
    /\ Len(inputs) <= 3
    /\ sp_pc = "returned" =>
          /\ Len(inputs) >= 1
          /\ selected \in MatchingNames(AbbreviatorMap, inputs[Len(inputs)])
          /\ \A k \in 1..(Len(inputs) - 1) : MatchingEntries(AbbreviatorMap, inputs[k]) = {}
    /\ sp_pc \in {"build", "input"} =>
          /\ Len(inputs) < 3
          /\ \A k \in 1..Len(inputs) : MatchingEntries(AbbreviatorMap, inputs[k]) = {}
    /\ Failed =>
          /\ Len(inputs) = 3
          /\ \A k \in 1..3 : MatchingEntries(AbbreviatorMap, inputs[k]) = {}
          /\ raised.type = "Exception"
          /\ IsPrefix(InvalidSelectionText, raised.msg)

\* C1 on the calls whose build_options returns: the same statement, once the
\* options text and the map are there.
C1_ThreeAttemptsOnceBuilt ==
    (sp_pc = "build" \/ (Failed /\ raised.type # "Exception")) \/ C1_ThreeAttempts

\* C6: the error raised after 3 lines that do not match carries the 3rd line as
\* typed, and '' in its place when that line is empty.
C6_LastLineInError ==
    (sp_pc = "raised" /\ raised.type = "Exception" /\ Len(inputs) = 3) =>
        raised.msg = InvalidSelectionText
                        \o (IF Len(inputs[3]) = 0 THEN <<"'", "'">> ELSE inputs[3])

\* show_prompt has failed on a 3rd line with capital letters that differs from
\* the two lines before it.
C6_Witness ==
    /\ sp_pc = "raised"
    /\ raised.type = "Exception"
    /\ Len(inputs) = 3
    /\ inputs[3] # Lower(inputs[3])
    /\ inputs[1] # inputs[3]
    /\ inputs[2] # inputs[3]

\* C9: for a map made from pairwise-distinct names, at most one name matches a
\* line that is read.
C9_AtMostOneMatch ==
    (sp_pc \in {"input", "returned", "raised"} /\ Len(inputs) >= 1 /\ Distinct(sp_names)) =>
        Cardinality(MatchingNames(prompt_map, raw)) <= 1

-----------------------------------------------------------------------------
(* Properties of the session, under Spec. *)

\* The selection prompt in progress has raised after its 3 attempts.
Exhausted ==
    /\ pc \in {"city", "date_filter", "month", "day"}
    /\ sp_pc = "raised"
    /\ raised.type = "Exception"
    /\ Len(inputs) = MAX_PROMPTS

\* main is at the restart prompt after printing the message of an exhausted prompt.
AskingAfterExhausted == pc = "restart" /\ IsPrefix(InvalidSelectionText, printed)

\* What follows an exhausted prompt up to the restart prompt: main prints the
\* message and asks; no prompt is shown, no data loaded, no statistics computed.
EndsSession ==
    /\ Exhausted =>
          /\ pc' = "restart"
          /\ printed' = raised.msg
          /\ sp_pc' = "idle"
          /\ shown' = shown
          /\ loaded' = FALSE
          /\ stat' = 0
    /\ AskingAfterExhausted =>
          /\ sp_pc = "idle"
          /\ loaded = FALSE
          /\ stat = 0
          /\ pc' \in {"get_filters", "exit"}
    /\ (pc = "get_filters" /\ restart # <<>>) =>
          /\ shown' \in {<<>>, <<"city">>}
          /\ pc' = "city" <=> (\E i \in 1..Len(listing) : is_csv_file(listing[i]))
          /\ loaded' = FALSE
          /\ stat' = 0

\* C10, as claimed: an exhausted prompt ends the session with its message and the
\* restart prompt; the answer "yes" starts a new session, any other ends the program.
C10_RestartOnYes ==
    [][ /\ EndsSession
        /\ AskingAfterExhausted =>
              IF restart' = <<"y","e","s">> THEN pc' = "get_filters" ELSE pc' = "exit"
      ]_vars

\* C10, amended: an exhausted prompt ends the session with its message and the
\* restart prompt; an answer that is "yes" in lowercase starts a new session, any
\* other answer or the end of the input ends the program.
C10_RestartOnYesAnyCase ==
    [][ /\ EndsSession
        /\ AskingAfterExhausted =>
              IF Lower(restart') = <<"y","e","s">> THEN pc' = "get_filters" ELSE pc' = "exit"
      ]_vars

\* The month or day prompt was exhausted, the message printed, and the answer
\* YES in capitals has started the next pass of the loop of main.
C10_Witness ==
    /\ pc = "get_filters"
    /\ IsPrefix(InvalidSelectionText, printed)
    /\ restart = <<"Y","E","S">>
    /\ Len(shown) = 3

-----------------------------------------------------------------------------
(* Properties of the progress animation, under SpecWait. *)

\* The animation threads that are alive.
AliveThreads == {t \in ThreadIds : is_alive(t)}

\* The program is blocked in input(): in a selection prompt, in a raw-data
\* prompt or in the restart prompt.
ReadingInput ==
    /\ raised = NoExc
    /\ sp_pc = "input" \/ pc \in {"raw", "more", "restart"}

\* thread = None, wait = False and kill = False
GlobalsReset == thread = ThreadNone /\ wait = FALSE /\ kill = FALSE

\* C11: across any run of main, with normal completion or an exception raised
\* between show_on_wait and stop_waiting, at most one animation thread is alive
\* at a time, and whenever the program is blocked reading input, and whenever
\* it is outside the code between a show_on_wait and the return of the
\* stop_waiting that follows it, the thread has been joined: no thread is
\* alive, thread = None, wait = False and kill = False.
C11_JoinedBeforeInput ==
    /\ Cardinality(AliveThreads) <= 1
    /\ ReadingInput => AliveThreads = {} /\ GlobalsReset
    /\ w_pc = "none" => AliveThreads = {} /\ GlobalsReset

\* The restart prompt is read after an exception left the second statistics
\* function between its show_on_wait and its stop_waiting, two animations
\* having been stopped normally before.
C11_Witness ==
    /\ pc = "restart"
    /\ raised = NoExc
    /\ loaded
    /\ stat = 2
    /\ w_pc = "none"

====
